---- MODULE Spec2Model ----
(***************************************************************************)
(* rust-top: the terminal session (tui.rs, run) around the refresh loop     *)
(* (tui.rs, run_app), the session state                                    *)
(* (app.rs, App) and the process-list projection (ui/mod.rs,               *)
(* render_processes).                                                      *)
(*                                                                         *)
(* A snapshot (app.sys.processes(), a HashMap<Pid, Process>) is modelled   *)
(* as the sequence of its entries in the order the map iterates them; the  *)
(* order is arbitrary, so every refresh may present any order.             *)
(***************************************************************************)
EXTENDS Integers, Sequences, FiniteSets, TLC

VARIABLES
    sys,             \* app.sys.processes(): entries [pid, name, cpu, mem] in iteration order
    sort_by,         \* app.sort_by
    filter,          \* app.filter, a sequence of characters
    is_filtering,    \* app.is_filtering
    show_help,       \* app.show_help
    selected_index,  \* app.selected_index (usize)
    selected_pid,    \* app.selected_pid (Option<Pid>, None is NonePid)
    tick_rate,       \* app.tick_rate in milliseconds
    pc,              \* position of run: "enable_raw_mode", "enter_alternate_screen",
                     \* "new_terminal", in run_app "refresh", "draw", "poll", "done"
                     \* once run_app returned, "returned" once run returned
    res,             \* result of run_app: "running", "ok", "err"
    run,             \* the terminal as run left it and what run reported and returned
    frame,           \* what render_processes built in this loop iteration
    hist             \* history: the last event dispatched and the state around it

vars == <<sys, sort_by, filter, is_filtering, show_help, selected_index,
          selected_pid, tick_rate, pc, res, run, frame, hist>>

app == <<sort_by, filter, is_filtering, show_help, selected_index, selected_pid, tick_rate>>

-----------------------------------------------------------------------------
(* Program constants *)

\* usize::MAX, the End/'G' sentinel. TLC's integers are 32-bit, so the width is
\* scaled to 31 bits; only saturation at the maximum is observable.
USIZE_MAX == 2147483647
NonePid == -1
DisplayCap == 200
PageStep == 10
TickInit == 500
TickStep == 50
TickMin == 100
TickMax == 2000

\* f32 values of cpu_usage are encoded by integers ordered as f32::total_cmp
\* orders them: -NaN < every number < +NaN.
PosNaN == 1000000
NegNaN == -1000000

-----------------------------------------------------------------------------
(* Bounds of the model *)

MaxLoopPid == 2      \* pids 1..MaxLoopPid live in the loop's snapshots
MaxPid == 3          \* pids 1..MaxPid in the projection's input snapshots
MaxFilterLen == 1    \* the user types at most this many filter characters in the loop
MaxTickDrift == 1    \* the user presses '+'/'-' within this many steps of TickInit
CapSlack == 3        \* the large snapshots hold DisplayCap-1 .. DisplayCap+CapSlack processes
MaxTyped == 2        \* the user types filter texts of at most this length in a typing session

-----------------------------------------------------------------------------
(* Integer helpers: usize / u64 saturating arithmetic *)

Min(a, b) == IF a < b THEN a ELSE b
Max(a, b) == IF a > b THEN a ELSE b

saturating_sub(a, n) == IF a < n THEN 0 ELSE a - n
saturating_add(a, n) == IF a > USIZE_MAX - n THEN USIZE_MAX ELSE a + n

-----------------------------------------------------------------------------
(* Strings: sequences of characters. The Greek capital sigma, small sigma and *)
(* final small sigma are written "SIGMA", "sigma" and "final-sigma".         *)

\* the characters of the model's alphabet with the Unicode property Cased; the
\* alphabet holds no Case_Ignorable character
Cased(c) ==
    c \in {"a", "b", "A", "B", "c", "g", "G", "j", "k", "m", "p", "q", "SIGMA", "sigma", "final-sigma"}

\* char-by-char lowercase mapping (conversions::to_lower)
LowerChar(c) ==
    CASE c = "A" -> "a"
      [] c = "B" -> "b"
      [] c = "G" -> "g"
      [] c = "SIGMA" -> "sigma"
      [] OTHER -> c

\* str::to_lowercase's one contextual mapping: capital sigma becomes the final
\* form when a cased letter precedes it and none follows it
map_uppercase_sigma(s, i) ==
    IF (i > 1 /\ Cased(s[i - 1])) /\ ~(i < Len(s) /\ Cased(s[i + 1]))
    THEN "final-sigma" ELSE "sigma"

\* str::to_lowercase
to_lowercase(s) ==
    [i \in 1..Len(s) |->
        IF s[i] = "SIGMA" THEN map_uppercase_sigma(s, i) ELSE LowerChar(s[i])]

\* str::contains: pat occurs in s as a contiguous substring
contains(s, pat) ==
    \E k \in 0..(Len(s) - Len(pat)) : SubSeq(s, k + 1, k + Len(pat)) = pat

-----------------------------------------------------------------------------
(* render_processes: sort, filter, selection resolution, list items *)

SortModes == {"Cpu", "Mem", "Pid"}

\* the value the comparator closure of each sort mode compares
SortKey(e, mode) ==
    CASE mode = "Cpu" -> e.cpu
      [] mode = "Mem" -> e.mem
      [] mode = "Pid" -> e.pid

\* the comparator with its operands the other way round: an ascending sort
CmpLess_Ascending(ka, kb) == ka < kb

\* closure |a, b| b.key.cmp(&a.key) on the keys: Less, i.e. a sorts before b,
\* iff b's key is smaller
CmpLess(ka, kb) == kb < ka

\* a sequence evaluated once, element by element
Strict(f) == SubSeq(f, 1, Len(f))

\* the number of elements a stable sort puts before element i: those that
\* compare Less, and those that compare Equal and came first
RankOf(key, i) ==
    Cardinality({j \in DOMAIN key : CmpLess(key[j], key[i])})
    + Cardinality({j \in 1..(i - 1) : ~CmpLess(key[j], key[i]) /\ ~CmpLess(key[i], key[j])})

Ranks(key) == Strict([i \in DOMAIN key |-> RankOf(key, i)])

\* the element of v with the given rank, for every rank
Placed(v, rank) == Strict([r \in 1..Len(v) |-> v[CHOOSE i \in 1..Len(v) : rank[i] = r - 1]])

\* Vec::sort_by, a stable sort, with the comparator of the sort mode
sort_by_stable(v, mode) ==
    Placed(v, Ranks(Strict([i \in 1..Len(v) |-> SortKey(v[i], mode)])))

\* retain comparing the lowercased name with the filter as typed
retain_filter_AsTyped(v, flt) ==
    LET keep(e) == contains(to_lowercase(e.name), flt)
    IN  IF flt = <<>> THEN v ELSE SelectSeq(v, keep)

\* processes.retain(..) unless filter_lower is empty
retain_filter(v, flt) ==
    LET filter_lower == to_lowercase(flt)
        keep(e) == contains(to_lowercase(e.name), filter_lower)
    IN  IF filter_lower = <<>> THEN v ELSE SelectSeq(v, keep)

\* the local vector `processes` after sort and retain
Processes(snapshot, mode, flt) == retain_filter(sort_by_stable(snapshot, mode), flt)

\* processes.iter().position(|(pid, _)| *pid == sel_pid): 0-based, -1 for None
position(v, pid) ==
    IF \E i \in 1..Len(v) : v[i].pid = pid
    THEN (CHOOSE i \in 1..Len(v) : v[i].pid = pid /\ \A j \in 1..(i - 1) : v[j].pid /= pid) - 1
    ELSE -1

\* the selection kept by index alone, the selected pid never looked up
FollowPid_IndexOnly(v, idx, pid) == idx

\* the selected pid looked up among the displayed rows only
FollowPid_Displayed(v, idx, pid) ==
    IF pid /= NonePid /\ position(SubSeq(v, 1, Min(Len(v), DisplayCap)), pid) >= 0
    THEN position(v, pid) ELSE idx

\* lines 124-128: follow the selected pid when it is in the list
FollowPid(v, idx, pid) ==
    IF pid /= NonePid /\ position(v, pid) >= 0 THEN position(v, pid) ELSE idx

\* the clamp without the saturating_sub(1)
ClampIndex_ToLen(v, idx) ==
    IF idx >= Len(v) THEN Len(v) ELSE idx

\* the clamp with len - 1 as a wrapping subtraction
ClampIndex_Wrapping(v, idx) ==
    IF idx >= Len(v) THEN (IF Len(v) = 0 THEN USIZE_MAX ELSE Len(v) - 1) ELSE idx

\* lines 129-131: clamp
ClampIndex(v, idx) ==
    IF idx >= Len(v) THEN saturating_sub(Len(v), 1) ELSE idx

\* the row's pid adopted only while no pid is selected
AdoptPid_OnlyWhenNone(v, idx, pid) ==
    IF idx < Len(v) /\ pid = NonePid THEN v[idx + 1].pid ELSE pid

\* the selection dropped when there is no row at the index
AdoptPid_ClearWhenEmpty(v, idx, pid) ==
    IF idx < Len(v) THEN v[idx + 1].pid ELSE NonePid

\* lines 132-134: processes.get(selected_index)
AdoptPid(v, idx, pid) ==
    IF idx < Len(v) THEN v[idx + 1].pid ELSE pid

\* lines 143-151: the first DisplayCap rows, the one at selected_index highlighted
ListItems(v, idx) ==
    [i \in 1..Min(Len(v), DisplayCap) |-> [pid |-> v[i].pid, highlighted |-> (i - 1 = idx)]]

NoFrame == [drawn |-> FALSE, rows |-> <<>>, items |-> <<>>]
NoHist == [ev |-> "none", index |-> 0, pid |-> NonePid, same |-> FALSE, stored |-> 0]

\* lines 124-151 on the sorted and filtered vector v
ResolveAndList(v, idx) ==
    /\ selected_index' = idx
    /\ selected_pid' = AdoptPid(v, idx, selected_pid)
    /\ frame' = [drawn |-> TRUE, rows |-> v, items |-> ListItems(v, idx)]
    /\ hist' = [hist EXCEPT !.stored = selected_index]

Resolve(v) == ResolveAndList(v, ClampIndex(v, FollowPid(v, selected_index, selected_pid)))

\* ui(f, app): render_processes mutates app.selected_index and app.selected_pid
RenderProcesses == Resolve(Processes(sys, sort_by, filter))

-----------------------------------------------------------------------------
(* The inputs offered to the program *)

Entry(p, n, c, m) == [pid |-> p, name |-> n, cpu |-> c, mem |-> m]

\* the record of each pid in the loop's snapshots: pids 1 and 2 are the
\* processes of the spec's scenarios, later pids tie with them on cpu and mem
LoopRecord(p) ==
    CASE p = 1 -> [name |-> <<"a">>, cpu |-> 10, mem |-> 100]
      [] p = 2 -> [name |-> <<"A", "b">>, cpu |-> 90, mem |-> 50]
      [] OTHER -> [name |-> <<"b">>, cpu |-> 10, mem |-> 50]

WithPid(p, r) == Entry(p, r.name, r.cpu, r.mem)

RECURSIVE SeqsOver(_, _)
\* all sequences of distinct pids from P, each with one of its records R[p]
SeqsOver(P, R) ==
    {<<>>} \cup
    UNION { { <<WithPid(p, r)>> \o s : s \in SeqsOver(P \ {p}, R) } :
            <<p, r>> \in {<<q, x>> \in P \X UNION {R[q] : q \in P} : x \in R[q]} }

LoopSnapshots == SeqsOver(1..MaxLoopPid, [p \in 1..MaxLoopPid |-> {LoopRecord(p)}])

\* the records a pid may have in the projection's input snapshots: its record
\* of the loop, or one that ties with other pids (pid 1: a name ending in a
\* capital sigma, pid 3: a NaN cpu_usage of either sign)
ProjRecords(p) ==
    {LoopRecord(p)} \cup
    IF p = 3
    THEN {[name |-> <<"b">>, cpu |-> nan, mem |-> 100] : nan \in {PosNaN, NegNaN}}
    ELSE {[name |-> IF p = 1 THEN <<"a", "SIGMA">> ELSE LoopRecord(p).name,
           cpu |-> 90, mem |-> 100]}

ProjSnapshots == SeqsOver(1..MaxPid, [p \in 1..MaxPid |-> ProjRecords(p)])

ProjFilters == {<<>>, <<"a">>, <<"B">>, <<"a", "B">>, <<"SIGMA">>}

\* a large process table: pids 1..n iterated upwards or downwards
BigRecord(p) ==
    [name |-> IF p % 50 = 0 THEN <<"b">> ELSE <<"a">>, cpu |-> (p * 7) % 10, mem |-> p % 3]

BigSnapshot(n, up) ==
    [i \in 1..n |-> WithPid(IF up THEN i ELSE n + 1 - i, BigRecord(IF up THEN i ELSE n + 1 - i))]

BigSnapshots ==
    { BigSnapshot(n, up) : <<n, up>> \in ((DisplayCap - 1)..(DisplayCap + CapSlack)) \X BOOLEAN }

SpecialKeys == {"Up", "Down", "PageUp", "PageDown", "Home", "End",
                "Enter", "Esc", "Backspace", "Tab"}
NormalChars == {"k", "j", "g", "G", "/", "?", "+", "-", "c", "m", "p", "q"}
FilterChars == {"B"}

Key(code, ch, ctrl) == [code |-> code, ch |-> ch, ctrl |-> ctrl]
Special(code) == Key(code, "", FALSE)
Char(ch) == Key("Char", ch, FALSE)
CtrlC == Key("Char", "c", TRUE)

\* the keys the user presses in the current state
EnvKeys ==
    {CtrlC} \cup {Special(c) : c \in SpecialKeys} \cup
    IF is_filtering
    THEN {Char(ch) : ch \in IF Len(filter) < MaxFilterLen THEN FilterChars ELSE {}}
    ELSE {Char(ch) : ch \in NormalChars \
              IF tick_rate - TickInit < MaxTickDrift * TickStep
                 /\ TickInit - tick_rate < MaxTickDrift * TickStep
              THEN {} ELSE {"+", "-"}}

Keys(specials, chars) ==
    {CtrlC} \cup {Special(c) : c \in specials} \cup {Char(ch) : ch \in chars}

\* the one snapshot of the typing sessions: both processes of the scenarios
TypingSnapshots == {<<WithPid(1, LoopRecord(1)), WithPid(2, LoopRecord(2))>>}

TypedChars == {"a", "B"}

\* the keys of a user who edits the filter: '/' opens the filter, then
\* characters, Backspace, Enter, Esc and an unbound key
TypingKeys ==
    Keys({"Enter", "Esc", "Backspace", "Tab"},
         IF ~is_filtering THEN {"/"}
         ELSE IF Len(filter) < MaxTyped THEN TypedChars ELSE {})

\* the keys of a user who adjusts the refresh rate, without limit, between
\* other keys: every key Normal mode binds, and '+' typed into the filter
TickKeys ==
    Keys(SpecialKeys,
         IF ~is_filtering THEN NormalChars
         ELSE IF Len(filter) < MaxFilterLen THEN {"+"} ELSE {})

\* every key the program binds in either mode, an unbound character and an
\* unbound key
AllKeys == Keys(SpecialKeys, NormalChars \cup {"x"})

KeyName(key) == IF key.ctrl THEN "Ctrl-" \o key.ch
                ELSE IF key.code = "Char" THEN key.ch ELSE key.code

-----------------------------------------------------------------------------
(* run and run_app *)

\* run's view of the terminal: raw mode, alternate screen, whether the error
\* was written to stderr, and run's return value ("none" while it runs)
Started == [raw |-> FALSE, alt |-> FALSE, reported |-> FALSE, ret |-> "none"]
InLoop == [raw |-> TRUE, alt |-> TRUE, reported |-> FALSE, ret |-> "none"]

\* the program at the entry of run; the fields of app hold what App::new()
\* gives them at line 21
Init ==
    /\ sys \in LoopSnapshots
    /\ sort_by = "Cpu"
    /\ filter = <<>>
    /\ is_filtering = FALSE
    /\ show_help = FALSE
    /\ selected_index = 0
    /\ selected_pid = NonePid
    /\ tick_rate = TickInit
    /\ pc = "enable_raw_mode"
    /\ res = "running"
    /\ run = Started
    /\ frame = NoFrame
    /\ hist = NoHist

\* enable_raw_mode()?
EnableRawMode ==
    /\ pc = "enable_raw_mode"
    /\ pc' = "enter_alternate_screen"
    /\ run' = [run EXCEPT !.raw = TRUE]
    /\ UNCHANGED <<sys, app, res, frame, hist>>

\* enable_raw_mode()? failing: `?` returns the error from run
EnableRawModeFail ==
    /\ pc = "enable_raw_mode"
    /\ pc' = "returned"
    /\ run' = [run EXCEPT !.ret = "Err"]
    /\ UNCHANGED <<sys, app, res, frame, hist>>

\* execute!(stdout, EnterAlternateScreen)?
EnterAlternateScreen ==
    /\ pc = "enter_alternate_screen"
    /\ pc' = "new_terminal"
    /\ run' = [run EXCEPT !.alt = TRUE]
    /\ UNCHANGED <<sys, app, res, frame, hist>>

\* execute!(stdout, EnterAlternateScreen)? failing: `?` returns the error
EnterAlternateScreenFail ==
    /\ pc = "enter_alternate_screen"
    /\ pc' = "returned"
    /\ run' = [run EXCEPT !.ret = "Err"]
    /\ UNCHANGED <<sys, app, res, frame, hist>>

\* Terminal::new(backend)?, then App::new() and the call of run_app
NewTerminal ==
    /\ pc = "new_terminal"
    /\ pc' = "refresh"
    /\ UNCHANGED <<sys, app, res, run, frame, hist>>

\* Terminal::new(backend)? failing: `?` returns the error
NewTerminalFail ==
    /\ pc = "new_terminal"
    /\ pc' = "returned"
    /\ run' = [run EXCEPT !.ret = "Err"]
    /\ UNCHANGED <<sys, app, res, frame, hist>>

\* the restore steps without the report of run_app's error
Restore_Silent ==
    /\ pc = "done"
    /\ pc' = "returned"
    /\ run' = [raw |-> FALSE, alt |-> FALSE, reported |-> FALSE, ret |-> "Ok"]
    /\ UNCHANGED <<sys, app, res, frame, hist>>

\* lines 25-32 once run_app returned: the terminal is put back (the three
\* calls are taken to succeed, their results are discarded by .ok()), an
\* error of run_app is printed to stderr, and run returns Ok(())
Restore ==
    /\ pc = "done"
    /\ pc' = "returned"
    /\ run' = [raw |-> FALSE, alt |-> FALSE, reported |-> (res = "err"), ret |-> "Ok"]
    /\ UNCHANGED <<sys, app, res, frame, hist>>

\* app.refresh(): the process table is replaced by the OS's current one
Refresh(snapshots) ==
    /\ pc = "refresh"
    /\ \E s \in snapshots :
         /\ sys' = s
         /\ hist' = [hist EXCEPT !.same = (s = sys /\ frame.drawn)]
    /\ frame' = NoFrame
    /\ pc' = "draw"
    /\ UNCHANGED <<app, res, run>>

\* terminal.draw(|f| ui(f, app))? succeeding
Draw ==
    /\ pc = "draw"
    /\ RenderProcesses
    /\ pc' = "poll"
    /\ UNCHANGED <<sys, sort_by, filter, is_filtering, show_help, tick_rate, res, run>>

\* terminal.draw(..)? failing, before the closure ran (resize) or after it (flush)
DrawFail ==
    /\ pc = "draw"
    /\ \/ RenderProcesses
       \/ UNCHANGED <<selected_index, selected_pid, frame, hist>>
    /\ pc' = "done"
    /\ res' = "err"
    /\ UNCHANGED <<sys, sort_by, filter, is_filtering, show_help, tick_rate, run>>

\* event::poll(app.tick_rate)? or event::read()? failing
InputFail ==
    /\ pc = "poll"
    /\ pc' = "done"
    /\ res' = "err"
    /\ UNCHANGED <<sys, app, run, frame, hist>>

Dispatched(name) ==
    [ev |-> name, index |-> selected_index, pid |-> selected_pid,
     same |-> FALSE, stored |-> 0]

\* a timeout that goes back to drawing the snapshot it has
Timeout_Redraw ==
    /\ pc = "poll"
    /\ pc' = "draw"
    /\ hist' = [ev |-> "timeout", index |-> selected_index, pid |-> selected_pid,
                same |-> FALSE, stored |-> 0]
    /\ UNCHANGED <<sys, app, res, run, frame>>

\* event::poll returns false: the tick elapsed with no event
Timeout ==
    /\ pc = "poll"
    /\ pc' = "refresh"
    /\ hist' = Dispatched("timeout")
    /\ UNCHANGED <<sys, app, res, run, frame>>

\* Event::Resize and every other non-key event
OtherEvent ==
    /\ pc = "poll"
    /\ pc' = "refresh"
    /\ hist' = Dispatched("resize")
    /\ UNCHANGED <<sys, app, res, run, frame>>

\* filtering mode with Backspace removing the first character
FilteringKey_PopFront(key) ==
    /\ is_filtering' = IF key.code \in {"Enter", "Esc"} THEN FALSE ELSE is_filtering
    /\ filter' = CASE key.code = "Backspace" -> SubSeq(filter, 2, Len(filter))
                   [] key.code = "Char" -> Append(filter, key.ch)
                   [] OTHER -> filter
    /\ UNCHANGED <<sort_by, show_help, selected_index, tick_rate>>

\* filtering mode with Esc reverting the text
FilteringKey_CancelClears(key) ==
    /\ is_filtering' = IF key.code \in {"Enter", "Esc"} THEN FALSE ELSE is_filtering
    /\ filter' = CASE key.code = "Backspace" -> SubSeq(filter, 1, Len(filter) - 1)
                   [] key.code = "Char" -> Append(filter, key.ch)
                   [] key.code = "Esc" -> <<>>
                   [] OTHER -> filter
    /\ UNCHANGED <<sort_by, show_help, selected_index, tick_rate>>

\* the match arms of filtering mode
FilteringKey(key) ==
    /\ is_filtering' = IF key.code \in {"Enter", "Esc"} THEN FALSE ELSE is_filtering
    /\ filter' = CASE key.code = "Backspace" -> SubSeq(filter, 1, Len(filter) - 1)
                   [] key.code = "Char" -> Append(filter, key.ch)
                   [] OTHER -> filter
    /\ UNCHANGED <<sort_by, show_help, selected_index, tick_rate>>

\* the '+' arm without its .max(100)
faster_Unclamped(ms) == saturating_sub(ms, TickStep)

\* the '+' arm: ms.saturating_sub(50).max(100)
faster(ms) == Max(saturating_sub(ms, TickStep), TickMin)

\* the '-' arm without its .min(2000)
slower_Unclamped(ms) == saturating_add(ms, TickStep)

\* the '-' arm: ms.saturating_add(50).min(2000)
slower(ms) == Min(saturating_add(ms, TickStep), TickMax)

\* the match arms of normal mode, except quit
NormalKey(key) ==
    LET c == key.code
        ch == key.ch
    IN
    /\ selected_index' =
         CASE c = "Up" \/ (c = "Char" /\ ch = "k") -> saturating_sub(selected_index, 1)
           [] c = "Down" \/ (c = "Char" /\ ch = "j") -> saturating_add(selected_index, 1)
           [] c = "PageUp" -> saturating_sub(selected_index, PageStep)
           [] c = "PageDown" -> saturating_add(selected_index, PageStep)
           [] c = "Home" \/ (c = "Char" /\ ch = "g") -> 0
           [] c = "End" \/ (c = "Char" /\ ch = "G") -> USIZE_MAX
           [] OTHER -> selected_index
    /\ filter' = IF c = "Char" /\ ch = "/" THEN <<>> ELSE filter
    /\ is_filtering' = IF c = "Char" /\ ch = "/" THEN TRUE ELSE is_filtering
    /\ show_help' = IF c = "Char" /\ ch = "?" THEN ~show_help ELSE show_help
    /\ tick_rate' =
         CASE c = "Char" /\ ch = "+" -> faster(tick_rate)
           [] c = "Char" /\ ch = "-" -> slower(tick_rate)
           [] OTHER -> tick_rate
    /\ sort_by' =
         CASE c = "Char" /\ ch = "c" -> "Cpu"
           [] c = "Char" /\ ch = "m" -> "Mem"
           [] c = "Char" /\ ch = "p" -> "Pid"
           [] OTHER -> sort_by

\* the quit keys of Normal mode taken in filtering mode too
IsQuit_AnyMode(key) ==
    \/ (key.ctrl /\ key.code = "Char" /\ key.ch = "c")
    \/ key.code = "Esc" \/ (key.code = "Char" /\ key.ch = "q")

\* Ctrl-C taken as a quit key in Normal mode only
IsQuit_NormalOnly(key) ==
    ~is_filtering /\ (key.code = "Esc" \/ (key.code = "Char" /\ key.ch \in {"c", "q"} /\ (key.ctrl \/ key.ch = "q")))

\* the two returns of the key handler: Ctrl-C in any mode (lines 43-45), 'q' or
\* Esc in Normal mode (line 61)
IsQuit(key) ==
    \/ (key.ctrl /\ key.code = "Char" /\ key.ch = "c")
    \/ (~is_filtering /\ (key.code = "Esc" \/ (key.code = "Char" /\ key.ch = "q")))

\* Event::Key(key) that returns Ok(()) from run_app
QuitKey(keys) ==
    /\ pc = "poll"
    /\ \E key \in keys :
         /\ IsQuit(key)
         /\ hist' = Dispatched(KeyName(key))
    /\ pc' = "done"
    /\ res' = "ok"
    /\ UNCHANGED <<sys, app, run, frame>>

\* Event::Key(key) handled and the loop continues
KeyEvent(keys) ==
    /\ pc = "poll"
    /\ \E key \in keys :
         /\ ~IsQuit(key)
         /\ IF is_filtering THEN FilteringKey(key) ELSE NormalKey(key)
         /\ hist' = Dispatched(KeyName(key))
    /\ pc' = "refresh"
    /\ UNCHANGED <<sys, selected_pid, res, run, frame>>

Next ==
    \/ EnableRawMode
    \/ EnableRawModeFail
    \/ EnterAlternateScreen
    \/ EnterAlternateScreenFail
    \/ NewTerminal
    \/ NewTerminalFail
    \/ Refresh(LoopSnapshots)
    \/ Draw
    \/ DrawFail
    \/ InputFail
    \/ Timeout
    \/ OtherEvent
    \/ QuitKey(EnvKeys)
    \/ KeyEvent(EnvKeys)
    \/ Restore

Spec == Init /\ [][Next]_vars

-----------------------------------------------------------------------------
(* Sessions of run_app from its entry, each with the keys of one kind of user *)

\* the program at the entry of run_app (line 35): set-up done, app as App::new()
\* made it
Entered(snapshots) ==
    /\ sys \in snapshots
    /\ sort_by = "Cpu"
    /\ filter = <<>>
    /\ is_filtering = FALSE
    /\ show_help = FALSE
    /\ selected_index = 0
    /\ selected_pid = NonePid
    /\ tick_rate = TickInit
    /\ pc = "refresh"
    /\ res = "running"
    /\ run = InLoop
    /\ frame = NoFrame
    /\ hist = NoHist

InitTyping == Entered(TypingSnapshots)

NextTyping ==
    \/ Refresh(TypingSnapshots)
    \/ Draw
    \/ Timeout
    \/ OtherEvent
    \/ QuitKey(TypingKeys)
    \/ KeyEvent(TypingKeys)

SpecTyping == InitTyping /\ [][NextTyping]_vars

InitTick == Entered(TypingSnapshots)

NextTick ==
    \/ Refresh(TypingSnapshots)
    \/ Draw
    \/ Timeout
    \/ QuitKey(TickKeys)
    \/ KeyEvent(TickKeys)

SpecTick == InitTick /\ [][NextTick]_vars

-----------------------------------------------------------------------------
(* The projection alone: render_processes applied once to any snapshot and   *)
(* any view state the loop can leave behind                                  *)

InitView(snapshots, filters, indexes, pids) ==
    /\ sys \in snapshots
    /\ sort_by \in SortModes
    /\ filter \in filters
    /\ is_filtering = FALSE
    /\ show_help = FALSE
    /\ selected_index \in indexes
    /\ selected_pid \in pids
    /\ tick_rate = TickInit
    /\ pc = "draw"
    /\ res = "running"
    /\ run = InLoop
    /\ frame = NoFrame
    /\ hist = [NoHist EXCEPT !.index = selected_index, !.pid = selected_pid]

InitProj ==
    InitView(ProjSnapshots, ProjFilters, (0..MaxPid) \cup {USIZE_MAX},
             {NonePid} \cup (1..(MaxPid + 1)))

NextProj == Draw

SpecProj == InitProj /\ [][NextProj]_vars

\* the key handler alone: one projection, then one event, from any view state
\* the loop can hold when it draws
InitHandler ==
    /\ sys \in TypingSnapshots
    /\ sort_by \in SortModes
    /\ filter \in {<<>>, <<"a">>}
    /\ is_filtering \in BOOLEAN
    /\ show_help \in BOOLEAN
    /\ selected_index \in {0, 1, PageStep + 1, USIZE_MAX}
    /\ selected_pid \in {NonePid, 1, 2}
    /\ tick_rate \in {TickMin, TickInit, TickMax}
    /\ pc = "draw"
    /\ res = "running"
    /\ run = InLoop
    /\ frame = NoFrame
    /\ hist = [NoHist EXCEPT !.index = selected_index, !.pid = selected_pid]

NextHandler ==
    \/ Draw
    \/ Timeout
    \/ OtherEvent
    \/ QuitKey(AllKeys)
    \/ KeyEvent(AllKeys)

SpecHandler == InitHandler /\ [][NextHandler]_vars

InitCap ==
    InitView(BigSnapshots, {<<>>, <<"a">>},
             {0, DisplayCap - 1, DisplayCap, USIZE_MAX},
             {NonePid, 1, 2, DisplayCap, DisplayCap + CapSlack + 1})

NextCap == Draw

SpecCap == InitCap /\ [][NextCap]_vars

-----------------------------------------------------------------------------
(* Vocabulary of the properties *)

\* render_processes has run in this loop iteration and the frame is on screen
Projected == pc = "poll"

Rows == frame.rows
RowPids == [i \in 1..Len(frame.rows) |-> frame.rows[i].pid]
InRows(p) == \E i \in 1..Len(frame.rows) : frame.rows[i].pid = p
InSnapshot(p) == \E i \in 1..Len(sys) : sys[i].pid = p

\* the case folding of a character: both cases and every form of a letter agree
FoldChar(c) ==
    CASE c \in {"A", "a"} -> "a"
      [] c \in {"B", "b"} -> "b"
      [] c \in {"G", "g"} -> "g"
      [] c \in {"SIGMA", "sigma", "final-sigma"} -> "sigma"
      [] OTHER -> c

\* name contains f, letters compared without regard to case
MatchesCI(name, f) ==
    \E k \in 0..(Len(name) - Len(f)) :
        \A i \in 1..Len(f) : FoldChar(name[k + i]) = FoldChar(f[i])

\* process p is in the snapshot and the current filter keeps it
PassesFilter(p) ==
    \E i \in 1..Len(sys) :
        /\ sys[i].pid = p
        /\ \/ to_lowercase(filter) = <<>>
           \/ contains(to_lowercase(sys[i].name), to_lowercase(filter))

IsNaN(c) == c \in {PosNaN, NegNaN}

MoveKeys == {"Up", "k", "Down", "j", "PageUp", "PageDown"}
JumpKeys == {"Home", "g", "End", "G"}

\* the last event was a selection-moving key pressed in Normal mode
\* (in filtering mode these keys leave is_filtering set)
NavPressed == hist.ev \in (MoveKeys \cup JumpKeys) /\ ~is_filtering

\* this projection follows an earlier one of the same run
Reprojected == Projected /\ hist.ev /= "none"

-----------------------------------------------------------------------------
(* C1 *)

\* C1 (selection persistence): when a projection follows an earlier one with no
\* navigation key in between, and the process P selected after the earlier one
\* is in the new snapshot and passes the current filter, then selected_pid is
\* still P and selected_index is P's position in the new filtered/sorted rows,
\* whatever the sort mode has become.
C1_SelectionPersistence ==
    (Reprojected /\ ~NavPressed /\ hist.pid /= NonePid /\ PassesFilter(hist.pid))
    => /\ selected_pid = hist.pid
       /\ selected_index < Len(Rows)
       /\ Rows[selected_index + 1].pid = hist.pid

\* scenario C: selection on pid 2 at row 0, 'm' pressed, rows become [1, 2]
C1_Witness ==
    /\ Projected /\ hist.ev = "m" /\ hist.pid = 2 /\ hist.index = 0
    /\ RowPids = <<1, 2>> /\ selected_index = 1 /\ selected_pid = 2

-----------------------------------------------------------------------------
(* C2 *)

NavTarget(ev, i, len) ==
    CASE ev \in {"Down", "j"} -> Min(i + 1, len - 1)
      [] ev \in {"Up", "k"} -> Max(i - 1, 0)
      [] ev = "PageDown" -> Min(i + PageStep, len - 1)
      [] ev = "PageUp" -> Max(i - PageStep, 0)
      [] ev \in {"Home", "g"} -> 0
      [] ev \in {"End", "G"} -> len - 1

\* C2 (navigation keys move the selection): after Down/'j', Up/'k', PageDown or
\* PageUp pressed in Normal mode with the selection at row i of len >= 1 rows,
\* the next projection over the unchanged snapshot has selected_index
\* min(i+step, len-1) resp. max(i-step, 0) and selected_pid the pid of that row.
C2_NavigationMoves ==
    (Projected /\ hist.ev \in MoveKeys /\ ~is_filtering /\ hist.same /\ Len(Rows) >= 1)
    => /\ selected_index = NavTarget(hist.ev, hist.index, Len(Rows))
       /\ selected_pid = Rows[NavTarget(hist.ev, hist.index, Len(Rows)) + 1].pid

-----------------------------------------------------------------------------
(* C3 *)

\* C3 (selection fallback): when the previously selected process is not among
\* the filtered/sorted rows, the projection clamps the stored selected_index to
\* [0, len-1] and adopts the pid of the row at the clamped index; with no rows
\* it ends with selected_index 0 and an empty list.
C3_SelectionFallback ==
    (Projected /\ hist.pid /= NonePid /\ ~InRows(hist.pid))
    => IF Len(Rows) = 0
       THEN selected_index = 0 /\ frame.items = <<>>
       ELSE /\ selected_index = Min(hist.stored, Len(Rows) - 1)
            /\ selected_pid = Rows[selected_index + 1].pid
            /\ selected_pid /= hist.pid

\* a stale pid and the End sentinel over at least two rows: the last row is adopted
C3_Witness ==
    /\ Projected /\ hist.pid /= NonePid /\ ~InRows(hist.pid)
    /\ Len(Rows) >= 2 /\ hist.stored = USIZE_MAX
    /\ selected_index = Len(Rows) - 1 /\ selected_pid = Rows[Len(Rows)].pid

-----------------------------------------------------------------------------
(* C4 *)

\* C4 (index in range): after every projection selected_index is in [0, len)
\* when there are len >= 1 filtered rows, and is 0 when there are none.
C4_IndexInRange ==
    Projected =>
        IF Len(Rows) >= 1
        THEN 0 <= selected_index /\ selected_index < Len(Rows)
        ELSE selected_index = 0

\* 'G' stored the sentinel, the selected process then left: the clamp acted
C4_Witness ==
    /\ Projected /\ hist.ev = "G" /\ hist.stored = USIZE_MAX /\ ~InRows(hist.pid)
    /\ Len(Rows) >= 1 /\ selected_index = Len(Rows) - 1

-----------------------------------------------------------------------------
(* C5 *)

\* C5 as stated (selected_pid stability): across a tick with no selection-moving
\* key, selected_pid keeps its value while that process is in the snapshot.
C5_StableWhileInSnapshot ==
    (Reprojected /\ ~NavPressed /\ hist.pid /= NonePid /\ InSnapshot(hist.pid))
    => selected_pid = hist.pid

\* C5 amended: across a tick with no selection-moving key, selected_pid keeps its
\* value while that process is in the snapshot and passes the filter; it is
\* replaced only by a projection whose rows do not hold it.
C5_StableWhileInRows ==
    (Reprojected /\ ~NavPressed /\ hist.pid /= NonePid)
    => /\ PassesFilter(hist.pid) => selected_pid = hist.pid
       /\ selected_pid /= hist.pid => ~InRows(hist.pid) /\ Len(Rows) >= 1

\* a filter character was typed, the selected process still matches and moved up
C5_Witness ==
    /\ Projected /\ hist.ev = "B" /\ is_filtering /\ filter = <<"B">>
    /\ hist.pid = 2 /\ hist.index = 1 /\ selected_pid = 2 /\ selected_index = 0

-----------------------------------------------------------------------------
(* C6 *)

\* C6 (jump keys): after Home/'g' pressed in Normal mode the next projection over
\* the unchanged snapshot with len >= 1 rows has selected_index 0 and selected_pid
\* the first row's pid; after End/'G', selected_index len-1 and the last row's pid.
C6_JumpKeys ==
    (Projected /\ hist.ev \in JumpKeys /\ ~is_filtering /\ hist.same /\ Len(Rows) >= 1)
    => /\ selected_index = NavTarget(hist.ev, hist.index, Len(Rows))
       /\ selected_pid = Rows[NavTarget(hist.ev, hist.index, Len(Rows)) + 1].pid

-----------------------------------------------------------------------------
(* C7 *)

\* C7 (filter correctness): every filtered/sorted row is a process of the
\* snapshot whose name contains the filter without regard to case, every such
\* process of the snapshot is a row, once; with an empty filter the rows are
\* exactly the snapshot's processes.
C7_FilterCorrect ==
    Projected =>
        /\ \A i \in 1..Len(Rows) :
             /\ MatchesCI(Rows[i].name, filter)
             /\ \E j \in 1..Len(sys) : sys[j] = Rows[i]
             /\ \A k \in 1..Len(Rows) : Rows[k].pid = Rows[i].pid => k = i
        /\ \A j \in 1..Len(sys) :
             MatchesCI(sys[j].name, filter) => \E i \in 1..Len(Rows) : Rows[i] = sys[j]
        /\ filter = <<>> => Len(Rows) = Len(sys)

-----------------------------------------------------------------------------
(* C8 *)

\* C8 (sort correctness): in each sort mode the filtered/sorted rows are in
\* non-increasing order of the mode's key (cpu_usage, memory, pid), for every
\* pair of rows whose keys are numbers.
C8_SortCorrect ==
    Projected =>
        \A i, j \in 1..Len(Rows) :
            (i < j /\ ~IsNaN(SortKey(Rows[i], sort_by)) /\ ~IsNaN(SortKey(Rows[j], sort_by)))
            => SortKey(Rows[i], sort_by) >= SortKey(Rows[j], sort_by)

\* scenario A under a filter: {1: cpu 10, 2: cpu 90} iterated 1 first gives [2, 1]
C8_Witness ==
    /\ Projected /\ sort_by = "Cpu" /\ filter = <<"a">>
    /\ Len(sys) = 3 /\ sys[1].pid = 1 /\ sys[1].cpu = 10
    /\ RowPids = <<2, 1>> /\ Rows[1].cpu = 90

-----------------------------------------------------------------------------
(* C9 *)

\* the snapshot as the map would present it under the iteration order perm
Reiterated(perm) == [i \in 1..Len(sys) |-> sys[perm[i]]]

\* C9 (order determinism): the filtered/sorted rows depend only on the set of
\* the snapshot's entries and the view state: every iteration order of the same
\* entries projects to the same rows.
C9_OrderDeterminism ==
    Projected =>
        \A perm \in Permutations(1..Len(sys)) :
            Processes(Reiterated(perm), sort_by, filter) = Rows

-----------------------------------------------------------------------------
(* C10 *)

\* C10 (display cap): the list items are the first min(200, len) filtered/sorted
\* rows; a selected process at a row index >= 200 gets that index as
\* selected_index, stays selected_pid, and no list item is highlighted.
C10_DisplayCap ==
    Projected =>
        /\ Len(frame.items) = Min(DisplayCap, Len(Rows))
        /\ \A i \in 1..Len(frame.items) : frame.items[i].pid = Rows[i].pid
        /\ \A i \in (DisplayCap + 1)..Len(Rows) :
             Rows[i].pid = hist.pid
             => /\ selected_index = i - 1
                /\ selected_pid = hist.pid
                /\ \A k \in 1..Len(frame.items) : ~frame.items[k].highlighted

\* more than 200 rows, the selected process found beyond the displayed ones
C10_Witness ==
    /\ Projected /\ Len(Rows) > DisplayCap /\ Len(frame.items) = DisplayCap
    /\ hist.pid /= NonePid /\ hist.index = 0
    /\ selected_pid = hist.pid /\ selected_index >= DisplayCap
    /\ Rows[selected_index + 1].pid = hist.pid

-----------------------------------------------------------------------------
(* C11 *)

\* no process of the snapshot has a name that contains the filter, letters
\* compared without regard to case (every process when the snapshot is empty)
NoneMatches == \A j \in 1..Len(sys) : ~MatchesCI(sys[j].name, filter)

\* C11 (empty process set): projecting an empty snapshot, or one whose processes
\* the filter all removes, under any stored selected_index (the End sentinel
\* included) and any selected_pid (stale ones included) gives no rows and no
\* list item, hence no highlighted one, and leaves selected_index = 0; the
\* projection reads no row (selected_pid is left as it was).
C11_EmptyProcessSet ==
    /\ (Projected /\ NoneMatches) => Rows = <<>>
    /\ (Projected /\ Rows = <<>>)
       => /\ frame.items = <<>>
          /\ selected_index = 0
          /\ selected_pid = hist.pid

\* a non-empty snapshot all filtered away, End sentinel stored, stale selected_pid
C11_Witness ==
    /\ Projected /\ Len(sys) >= 1 /\ filter /= <<>> /\ NoneMatches /\ Rows = <<>>
    /\ hist.stored = USIZE_MAX /\ hist.pid /= NonePid /\ ~InSnapshot(hist.pid)
    /\ selected_index = 0 /\ frame.items = <<>>

-----------------------------------------------------------------------------
(* C12 *)

\* a key event was dispatched in this step and the loop goes on
KeyHandled == pc = "poll" /\ pc' = "refresh" /\ hist'.ev \notin {"timeout", "resize"}

\* one step of replaying a typed key on a text
TypeKey(text, ev) ==
    CASE ev = "Backspace" -> IF text = <<>> THEN <<>> ELSE SubSeq(text, 1, Len(text) - 1)
      [] ev \in TypedChars -> text \o <<ev>>
      [] OTHER -> text

\* C12 (filter text editing): '/' pressed in Normal mode sets is_filtering and
\* empties filter whatever it held; while filtering mode lasts, every step of
\* the program changes filter as replaying the typed key does: a character is
\* appended, Backspace removes the last character (nothing on the empty text),
\* no other step changes it. By induction filter is the replay of the session's
\* keys on the empty text.
C12_FilterEditing ==
    [][ /\ (KeyHandled /\ ~is_filtering /\ hist'.ev = "/") => (is_filtering' /\ filter' = <<>>)
        /\ (is_filtering /\ is_filtering')
           => filter' = IF KeyHandled THEN TypeKey(filter, hist'.ev) ELSE filter ]_vars

\* "aB" typed, then Backspace: "a" is left
C12_Witness ==
    /\ pc = "refresh" /\ is_filtering /\ hist.ev = "Backspace" /\ filter = <<"a">>
    /\ frame.drawn /\ RowPids = <<2>>

\* a second session opened over the text an earlier one left: the text is emptied
C12_Reopened ==
    /\ pc = "refresh" /\ is_filtering /\ hist.ev = "/" /\ filter = <<>>
    /\ frame.drawn /\ RowPids = <<2>>

-----------------------------------------------------------------------------
(* C13 *)

\* C13 (leaving filtering mode keeps the text): Enter and Esc in filtering mode
\* clear is_filtering, leave filter as typed and the loop goes on (no quit);
\* every later projection still applies the text: each row's lowercased name
\* contains the lowercased filter, whether or not filtering mode is on.
C13_LeaveKeepsText ==
    /\ [][ (pc = "poll" /\ res' /= "err" /\ is_filtering /\ hist'.ev \in {"Enter", "Esc"})
           => (~is_filtering' /\ filter' = filter /\ pc' = "refresh" /\ res' = "running") ]_vars
    /\ [](Projected => \A i \in 1..Len(Rows) :
                          contains(to_lowercase(Rows[i].name), to_lowercase(filter)))

\* "aB" typed, Esc, and the next frame: the text stays and filters the rows
C13_Witness ==
    /\ Projected /\ hist.ev = "Esc" /\ ~is_filtering /\ filter = <<"a", "B">>
    /\ Len(sys) = 2 /\ RowPids = <<2>>

-----------------------------------------------------------------------------
(* C14 *)

\* the wait ends in this step with an event other than Ctrl-C, or with the timeout
EventNotCtrlC == pc = "poll" /\ res' /= "err" /\ hist'.ev /= "Ctrl-c"

\* C14 (filtering mode consumes keys): while is_filtering, an event other than
\* Ctrl-C leaves sort_by, selected_index, tick_rate and show_help as they were
\* and the loop goes on, whichever key it is: the keys Normal mode binds
\* ('q', 'c', 'm', 'p', 'j', 'k', 'g', 'G', '+', '-', '?', '/', arrows, Page, Home,
\* End, Esc) included.
C14_FilteringConsumesKeys ==
    [][ (EventNotCtrlC /\ is_filtering)
        => /\ UNCHANGED <<sort_by, selected_index, tick_rate, show_help>>
           /\ pc' = "refresh" /\ res' = "running" ]_vars

\* 'q' typed in filtering mode with the selection on row 1, help shown, sort by
\* memory: the loop goes on, 'q' is in the text
C14_Witness ==
    /\ pc = "refresh" /\ is_filtering /\ hist.ev = "q" /\ filter = <<"a", "q">>
    /\ res = "running" /\ sort_by = "Mem" /\ show_help /\ selected_index = 1
    /\ tick_rate = TickMin

-----------------------------------------------------------------------------
(* C15 *)

\* C15 (global quit): a Ctrl-C key event ends the loop with success in Normal
\* mode and in filtering mode alike, and the handler changes nothing of app: no
\* 'c' is appended to filter, sort_by keeps its value. After it the only step is
\* run's restoring of the terminal: no snapshot is acquired, no frame drawn.
C15_GlobalQuit ==
    /\ [][ (pc = "poll" /\ hist'.ev = "Ctrl-c")
           => (pc' = "done" /\ res' = "ok" /\ UNCHANGED <<sys, app, frame>>) ]_vars
    /\ [][ hist.ev = "Ctrl-c"
           => (pc = "done" /\ pc' = "returned" /\ UNCHANGED <<sys, app, frame, res, hist>>) ]_vars
    /\ [](hist.ev = "Ctrl-c" => (pc \in {"done", "returned"} /\ res = "ok"))

\* Ctrl-C pressed in filtering mode after 'B' was typed, sort by memory
C15_Witness ==
    /\ pc = "returned" /\ hist.ev = "Ctrl-c" /\ res = "ok" /\ run.ret = "Ok"
    /\ is_filtering /\ filter = <<"B">> /\ sort_by = "Mem"

\* Ctrl-C pressed in Normal mode
C15_WitnessNormal ==
    pc = "done" /\ hist.ev = "Ctrl-c" /\ res = "ok" /\ ~is_filtering /\ sort_by = "Pid"

-----------------------------------------------------------------------------
(* C16 *)

\* C16 (tick bounds): tick_rate is within [100 ms, 2000 ms] in every reachable
\* state, whatever '+' and '-' keys are pressed among other keys, from 500 ms.
C16_TickBounds == TickMin <= tick_rate /\ tick_rate <= TickMax

\* '-' pressed at the upper bound
C16_Witness == pc = "refresh" /\ hist.ev = "-" /\ tick_rate = TickMax /\ ~is_filtering

\* '+' pressed at the lower bound
C16_WitnessMin == pc = "refresh" /\ hist.ev = "+" /\ tick_rate = TickMin /\ ~is_filtering

-----------------------------------------------------------------------------
(* C17 *)

RECURSIVE Decreased(_, _)
\* the tick after n decrease inputs ('+' keys) from ms
Decreased(n, ms) == IF n = 0 THEN ms ELSE faster(Decreased(n - 1, ms))

\* C17 (tick stepping): in Normal mode a '+' key sets tick_rate to
\* max(old - 50, 100), a '-' key sets it to min(old + 50, 2000), and no other
\* key changes it; five decreases from the initial 500 give 250, and from the
\* eighth on the tick stays at 100.
C17_TickStepping ==
    /\ [][ (KeyHandled /\ ~is_filtering)
           => tick_rate' = CASE hist'.ev = "+" -> Max(tick_rate - TickStep, TickMin)
                             [] hist'.ev = "-" -> Min(tick_rate + TickStep, TickMax)
                             [] OTHER -> tick_rate ]_vars
    /\ [](/\ Decreased(5, TickInit) = 250
          /\ \A n \in 8..12 : Decreased(n, TickInit) = TickMin)

\* the fifth decrease in a row from the start: 300 became 250
C17_Witness ==
    /\ pc = "refresh" /\ hist.ev = "+" /\ ~is_filtering
    /\ tick_rate = 250 /\ tick_rate = Decreased(5, TickInit)

-----------------------------------------------------------------------------
(* C18 *)

\* C18 (loop ordering): the loop's steps come in the order acquisition, render,
\* wait: an acquisition is followed by a render of a fresh frame, a render by
\* the wait or the end of the loop, the wait (one event at most, or the
\* timeout) by a new acquisition or the end of the loop, never by another wait
\* or a render; the snapshot changes in acquisition steps only and a frame is
\* drawn in render steps only, so a render always starts on a snapshot no frame
\* was drawn from.
C18_LoopOrdering ==
    /\ [][ /\ pc = "refresh" => (pc' = "draw" /\ ~frame'.drawn)
           /\ pc = "draw" => pc' \in {"poll", "done"}
           /\ pc = "poll" => pc' \in {"refresh", "done"}
           /\ sys' /= sys => pc = "refresh"
           /\ frame' /= frame => pc \in {"refresh", "draw"}
           /\ (frame'.drawn /\ ~frame.drawn) => pc = "draw" ]_vars
    /\ [](pc = "draw" => ~frame.drawn)
    /\ [](pc = "poll" => frame.drawn)

\* a timeout, then the next acquisition: the frame of the last tick is gone and
\* the render is about to start
C18_Witness ==
    /\ pc = "draw" /\ hist.ev = "timeout" /\ ~frame.drawn /\ Len(sys) = 2
    /\ selected_pid /= NonePid

-----------------------------------------------------------------------------
(* C19 *)

\* C19 (terminal restoration): whenever run has returned, on whatever path, raw
\* mode is disabled and the alternate screen is left (on the one path where
\* enable_raw_mode itself failed neither was ever entered).
C19_TerminalRestored == pc = "returned" => (~run.raw /\ ~run.alt)

\* the exit paths through lines 25-27: run_app has returned, with Ok or Err
C19_RestoredAfterLoop == (pc = "returned" /\ res /= "running") => (~run.raw /\ ~run.alt)

-----------------------------------------------------------------------------
(* C20 *)

\* a fallible call of the loop (draw, poll, read) fails in this step
Failed == res = "running" /\ res' = "err"

\* after a failure the loop is over: the one step left is run's restore, which
\* acquires, draws and dispatches nothing
NoRetry == res = "err" => (pc = "done" /\ pc' = "returned" /\ UNCHANGED <<sys, app, res, frame, hist>>)

\* run returned after a failure: terminal restored, error written to stderr
RestoredAndReported ==
    (pc = "returned" /\ res = "err") => (~run.raw /\ ~run.alt /\ run.reported /\ run.ret = "Ok")

-----------------------------------------------------------------------------
(* C21 *)

\* C21 (selection consistency): after every projection with at least one row,
\* selected_pid is set and is the pid of the row at selected_index, whatever
\* keys, snapshot changes and filter edits came before.
C21_SelectionConsistent ==
    (Projected /\ Len(Rows) >= 1)
    => /\ selected_pid /= NonePid
       /\ selected_index < Len(Rows)
       /\ Rows[selected_index + 1].pid = selected_pid

\* pid 2 was selected, 'G' stored the End sentinel, then pid 2 left the
\* snapshot: the index is clamped to the one row left and its pid adopted
C21_Witness ==
    /\ Projected /\ hist.ev = "G" /\ hist.pid = 2 /\ hist.stored = USIZE_MAX
    /\ RowPids = <<1>> /\ selected_index = 0 /\ selected_pid = 1

-----------------------------------------------------------------------------
(* C22 *)

\* render_processes runs in this step (the frame may still fail to flush)
Projects == pc = "draw" /\ frame'.drawn

\* C22 (stale selection is retained): a projection with no rows leaves
\* selected_pid as it was, and no step of the program unsets a selected_pid
\* that is set; a projection whose rows hold the selected process sets
\* selected_index to that process's position and keeps selected_pid, also
\* when earlier projections had no rows and left selected_index at 0.
C22_StaleSelectionRetained ==
    /\ [][(Projects /\ frame'.rows = <<>>) => selected_pid' = selected_pid]_vars
    /\ [][selected_pid /= NonePid => selected_pid' /= NonePid]_vars
    /\ [][ (Projects /\ selected_pid /= NonePid /\ position(frame'.rows, selected_pid) >= 0)
           => /\ selected_index' = position(frame'.rows, selected_pid)
              /\ selected_pid' = selected_pid ]_vars

\* pid 1 is selected and filtered away, the filter is emptied again with
\* Backspace while selected_index is 0, and pid 1 is found at row 1
C22_Witness ==
    /\ Projected /\ hist.ev = "Backspace" /\ is_filtering /\ filter = <<>>
    /\ hist.pid = 1 /\ hist.index = 0 /\ hist.stored = 0
    /\ RowPids = <<2, 1>> /\ selected_index = 1 /\ selected_pid = 1

\* the frame before that Backspace: the filter "B" leaves no row for the
\* snapshot <<1>>, pid 1 stays selected
C22_WitnessEmpty ==
    /\ Projected /\ filter = <<"B">> /\ RowPids = <<>> /\ Len(sys) = 1
    /\ selected_pid = 1 /\ selected_index = 0

-----------------------------------------------------------------------------
(* C23 *)

\* C23 (NaN ordering): in sort-by-CPU mode every row whose cpu_usage is NaN comes
\* after every row whose cpu_usage is a number.
C23_NaNLowest ==
    (Projected /\ sort_by = "Cpu")
    => \A i, j \in 1..Len(Rows) :
           (IsNaN(Rows[i].cpu) /\ ~IsNaN(Rows[j].cpu)) => j < i

\* what total_cmp gives: a NaN with the sign bit set comes after every number,
\* a NaN with the sign bit clear before every number
C23_NaNBySign ==
    (Projected /\ sort_by = "Cpu")
    => \A i, j \in 1..Len(Rows) :
           /\ (Rows[i].cpu = NegNaN /\ ~IsNaN(Rows[j].cpu)) => j < i
           /\ (Rows[i].cpu = PosNaN /\ ~IsNaN(Rows[j].cpu)) => i < j

====
